---------------------------- MODULE Spec2Model ----------------------------
(***************************************************************************)
(* A model of src/middleware.py: EnhancedLoggingMiddleware.dispatch and    *)
(* its helpers, the module-level status aggregator (request_count,         *)
(* status_counter) and the single-worker executor that writes the          *)
(* per-request records to the logging sink.                                *)
(*                                                                         *)
(* Conventions.                                                            *)
(*  - Bytes are integers 0..255, text is a sequence of one-character       *)
(*    strings, a body stream is a sequence of chunks (byte sequences).     *)
(*  - Floats are fixed-point: probabilities in hundredths (0.5 is 50),     *)
(*    seconds in tenths (2.0 s is 20).                                     *)
(*  - Requests are handled by coroutines of one event loop: the code       *)
(*    between two awaits of dispatch is one action; the executor's worker  *)
(*    is a thread of its own and has its own actions.                      *)
(*  - Every request lives in a slot (a coroutine of the event loop); a     *)
(*    slot whose request has ended takes the next request.                 *)
(***************************************************************************)
EXTENDS Integers, Sequences, FiniteSets, TLC

(***************************************************************************)
(* Bounds of the model.                                                    *)
(***************************************************************************)
\* Requests handled concurrently (slots of the event loop).
NumSlots == 2
\* Requests of a run of Spec: concurrent requests with plain inputs.
MaxRequests == 3
\* Requests of a run of SpecWide: every input the model knows.
WideRequests == 1
\* Requests of a run over the status codes and latencies.
LevelRequests == 1
\* Requests of a run over the request bodies.
BodyRequests == 1
\* Requests of a run with a worker that is scheduled again and again.
LiveRequests == 2
\* Requests of a run that keeps the order in which call_next returned.
OrderRequests == 2
\* Requests of a run of SpecAgg: Warmup requests arrive one at a time, each
\* a plain 200 response that is logged, and AggTail requests follow.
Warmup == 99
AggTail == 2
\* Lines of the sink a run of SpecAgg keeps (the most recent ones).
SinkWindow == 3

(***************************************************************************)
(* Program constants.                                                      *)
(***************************************************************************)
EXCLUDED_PATHS == {"/health", "/favicon.ico"}
LOGGABLE_CONTENT_TYPES == {"application/json", "text/plain"}
MAX_BODY_SIZE == 1024
\* float(os.getenv("LATENCY_THRESHOLD", 2.0)), in tenths of a second.
LATENCY_THRESHOLD == 20
\* request_count % 100 == 0
FLUSH_INTERVAL == 100
\* logging.ERROR, logging.WARNING, logging.INFO
ERROR == 40
WARNING == 30
INFO == 20

VARIABLES
    scenario,         \* [warmup, limit, wide, window, levels, bodies, slow,
                      \* order]: the
                      \* workload of this run
    LOG_SAMPLE_RATE,  \* float(os.getenv("LOG_SAMPLE_RATE", 1.0)), in hundredths
    request_count,    \* module global
    status_counter,   \* module global: Counter(), status code -> count
    work_queue,       \* executor._work_queue: items submitted, not yet taken
    worker_item,      \* the item the executor's one worker is running, if any
    sink,             \* the lines written through logging, oldest first
    summaries,        \* status summaries written so far
    req,              \* per slot: the request handled there and its locals
    started,          \* requests that entered dispatch so far
    submitted         \* items submitted to the executor so far

vars == <<scenario, LOG_SAMPLE_RATE, request_count, status_counter, work_queue,
          worker_item, sink, summaries, req, started, submitted>>

Slots == 1..NumSlots

(***************************************************************************)
(* Bytes and text.  str.encode() / bytes.decode() (UTF-8) on the ASCII     *)
(* range, where one character is one byte; a byte >= 128 that is not part  *)
(* of a well-formed sequence (0xFF never is) makes decode() raise.         *)
(***************************************************************************)
\* The printable ASCII characters, code 32 first (code 96 by its name).
AsciiChars ==
   <<" ", "!", "\"", "#", "$", "%", "&", "'", "(", ")", "*", "+",
     ",", "-", ".", "/", "0", "1", "2", "3", "4", "5", "6", "7",
     "8", "9", ":", ";", "<", "=", ">", "?", "@", "A", "B", "C",
     "D", "E", "F", "G", "H", "I", "J", "K", "L", "M", "N", "O",
     "P", "Q", "R", "S", "T", "U", "V", "W", "X", "Y", "Z", "[",
     "\\", "]", "^", "_", "grave", "a", "b", "c", "d", "e", "f", "g",
     "h", "i", "j", "k", "l", "m", "n", "o", "p", "q", "r", "s",
     "t", "u", "v", "w", "x", "y", "z", "{", "|", "}", "~">>

Ord(c) == 31 + (CHOOSE i \in 1..Len(AsciiChars) : AsciiChars[i] = c)
Chr(b) == AsciiChars[b - 31]

Encode(text) == [i \in 1..Len(text) |-> Ord(text[i])]

\* bytes.decode(): the text, or raised (UnicodeDecodeError).
Decode(bytes) ==
    IF \E i \in 1..Len(bytes) : bytes[i] >= 128
    THEN [raised |-> TRUE, text |-> <<>>]
    ELSE [raised |-> FALSE, text |-> [i \in 1..Len(bytes) |-> Chr(bytes[i])]]

\* s[:n]
Take(s, n) == SubSeq(s, 1, IF Len(s) < n THEN Len(s) ELSE n)

\* n copies of x
Rep(n, x) == [i \in 1..n |-> x]

RECURSIVE Concat(_)
\* b"".join(chunks)
Concat(chunks) ==
    IF chunks = <<>> THEN <<>> ELSE Head(chunks) \o Concat(Tail(chunks))

(***************************************************************************)
(* JSON values, as json.loads returns them: a dict is a sequence of        *)
(* [k, v] items with distinct keys, in insertion order.                    *)
(***************************************************************************)
JStr(s) == [t |-> "str", v |-> s]
JInt(n) == [t |-> "int", v |-> n]
JList(items) == [t |-> "list", v |-> items]
JDict(items) == [t |-> "dict", v |-> items]

\* str.lower() on the letters the inputs use.
LowerChar(c) ==
    CASE c = "P" -> "p"
      [] c = "T" -> "t"
      [] c = "A" -> "a"
      [] c = "S" -> "s"
      [] c = "W" -> "w"
      [] c = "O" -> "o"
      [] c = "R" -> "r"
      [] c = "D" -> "d"
      [] c = "K" -> "k"
      [] c = "E" -> "e"
      [] c = "N" -> "n"
      [] OTHER -> c

lower(s) == [i \in 1..Len(s) |-> LowerChar(s[i])]

SENSITIVE_FIELDS ==
    {<<"p", "a", "s", "s", "w", "o", "r", "d">>, <<"t", "o", "k", "e", "n">>}

MASK == <<"*", "*", "*", "*", "*">>

\* A redactor that compares the keys as they are written.
RECURSIVE mask_exact_keys(_)
mask_exact_keys(data) ==
    IF data.t = "dict"
    THEN JDict([i \in 1..Len(data.v) |->
                  [k |-> data.v[i].k,
                   v |-> IF data.v[i].k \notin SENSITIVE_FIELDS
                         THEN mask_exact_keys(data.v[i].v)
                         ELSE JStr(MASK)]])
    ELSE data

\* Lines 44-47
RECURSIVE mask_sensitive_data(_)
mask_sensitive_data(data) ==
    IF data.t = "dict"
    THEN JDict([i \in 1..Len(data.v) |->
                  [k |-> data.v[i].k,
                   v |-> IF lower(data.v[i].k) \notin SENSITIVE_FIELDS
                         THEN mask_sensitive_data(data.v[i].v)
                         ELSE JStr(MASK)]])
    ELSE data

\* json.dumps of a value, with the separators given: (", ", ": ") is the
\* default of json.dumps, (",", ":") the compact form clients send.  The
\* strings of the inputs need no escaping; integers are single digits.
RECURSIVE dumps(_, _, _)
RECURSIVE dumps_items(_, _, _, _)
dumps(data, item_sep, key_sep) ==
    CASE data.t = "str" -> <<"\"">> \o data.v \o <<"\"">>
      [] data.t = "int" -> <<Chr(48 + data.v)>>
      [] data.t = "list" ->
            <<"[">> \o dumps_items(data, 1, item_sep, key_sep) \o <<"]">>
      [] data.t = "dict" ->
            <<"{">> \o dumps_items(data, 1, item_sep, key_sep) \o <<"}">>

dumps_items(data, i, item_sep, key_sep) ==
    IF i > Len(data.v) THEN <<>>
    ELSE (IF i > 1 THEN item_sep ELSE <<>>)
         \o (IF data.t = "dict"
             THEN <<"\"">> \o data.v[i].k \o <<"\"">> \o key_sep
                  \o dumps(data.v[i].v, item_sep, key_sep)
             ELSE dumps(data.v[i], item_sep, key_sep))
         \o dumps_items(data, i + 1, item_sep, key_sep)

json_dumps(data) == dumps(data, <<",", " ">>, <<":", " ">>)
json_compact(data) == dumps(data, <<",">>, <<":">>)

(***************************************************************************)
(* The sentinels of the capture units, as text.                            *)
(***************************************************************************)
UNABLE_TO_READ ==
    <<"U", "n", "a", "b", "l", "e", " ", "t", "o", " ", "r", "e", "a",
    "d", " ", "b", "o", "d", "y">>

BODY_TOO_LARGE ==
    <<"B", "o", "d", "y", " ", "t", "o", "o", " ", "l", "a", "r", "g",
    "e", " ", "t", "o", " ", "l", "o", "g">>

RESPONSE_TOO_LARGE ==
    <<"R", "e", "s", "p", "o", "n", "s", "e", " ", "t", "o", "o", " ",
    "l", "a", "r", "g", "e", " ", "t", "o", " ", "l", "o", "g">>

SKIPPED_CONTENT_TYPE ==
    <<"S", "k", "i", "p", "p", "e", "d", " ", "l", "o", "g", "g", "i",
    "n", "g", " ", "d", "u", "e", " ", "t", "o", " ", "c", "o", "n", "t",
    "e", "n", "t", " ", "t", "y", "p", "e">>

\* b'{"detail":"Internal Server Error"}', the body JSONResponse renders.
INTERNAL_SERVER_ERROR_BODY ==
    Encode(json_compact(JDict(<<[k |-> <<"d", "e", "t", "a", "i", "l">>,
        v |-> JStr(<<"I", "n", "t", "e", "r", "n", "a", "l", " ", "S", "e", "r",
                     "v", "e", "r", " ", "E", "r", "r", "o", "r">>)]>>)))

(***************************************************************************)
(* What the hosting framework and the environment supply.                  *)
(***************************************************************************)
\* request.url.path
Paths == {"/items", "/health"}

\* random.random(), in hundredths: 0.0 can be drawn, 1.0 cannot.
Draws == {0, 50, 99}

\* A run of many requests draws one value that is sampled at the rate of
\* Spec and one that is not.
FewDraws == {50, 99}

\* LOG_SAMPLE_RATE values a deployment sets, in hundredths.
Rates == {0, 50, 100}

\* time.time() - start_time, in tenths of a second.
Latencies == {1, 20, 30}

\* str(e) of what the downstream continuation raises.
Errors == {"boom"}

\* A JSON document with a sensitive key at the top and one level down.
LoginDocument ==
    JDict(<<[k |-> <<"u", "s", "e", "r">>, v |-> JStr(<<"a">>)],
            [k |-> <<"P", "a", "s", "s", "w", "o", "r", "d">>, v |-> JInt(7)],
            [k |-> <<"m", "e", "t", "a">>,
             v |-> JDict(<<[k |-> <<"t", "o", "k", "e", "n">>,
                            v |-> JStr(<<"x", "y">>)]>>)]>>)

\* A request body: whether request.body() returns (raises otherwise), the
\* bytes it returns and what json.loads makes of them (parsed, or raises).
RequestBody(readable, raw, parses, value) ==
    [readable |-> readable, raw |-> raw, parses |-> parses, value |-> value]

LoginBody == RequestBody(TRUE, Encode(json_compact(LoginDocument)), TRUE, LoginDocument)
EmptyBody == RequestBody(TRUE, <<>>, FALSE, JInt(0))
BrokenBody == RequestBody(FALSE, <<>>, FALSE, JInt(0))

RequestBodies == {LoginBody, EmptyBody, BrokenBody}

\* No body read yet.
NoBody == RequestBody(FALSE, <<>>, FALSE, [t |-> "none", v |-> 0])

\* {"a":"xx...x"} with n times x: n + 8 bytes as the client sends it,
\* n + 9 characters as json.dumps writes it.
SizedDocument(n) == JDict(<<[k |-> <<"a">>, v |-> JStr(Rep(n, "x"))]>>)

SizedBody(n) ==
    RequestBody(TRUE, Encode(json_compact(SizedDocument(n))), TRUE,
                SizedDocument(n))

\* {"password":"xx...x"}: more than MAX_BODY_SIZE bytes, short once masked.
LongSecretDocument ==
    JDict(<<[k |-> <<"p", "a", "s", "s", "w", "o", "r", "d">>,
             v |-> JStr(Rep(MAX_BODY_SIZE, "x"))]>>)

\* Sensitive keys under a list, two objects down, and holding containers.
NestedDocument ==
    JDict(<<[k |-> <<"i", "t", "e", "m", "s">>,
             v |-> JList(<<JDict(<<[k |-> <<"t", "o", "k", "e", "n">>,
                                    v |-> JStr(<<"x">>)]>>),
                           JInt(1)>>)],
            [k |-> <<"a">>,
             v |-> JDict(<<[k |-> <<"b">>,
                            v |-> JDict(<<[k |-> <<"P", "A", "S", "S", "W",
                                                   "O", "R", "D">>,
                                           v |-> JList(<<JInt(1)>>)]>>)]>>)],
            [k |-> <<"T", "o", "k", "e", "n">>,
             v |-> JDict(<<[k |-> <<"k">>, v |-> JInt(1)]>>)]>>)

\* {"a":"x"} followed by MAX_BODY_SIZE spaces, which json.loads accepts.
PaddedBody ==
    RequestBody(TRUE,
                Encode(json_compact(SizedDocument(1))) \o Rep(MAX_BODY_SIZE, 32),
                TRUE, SizedDocument(1))

\* Bodies on both sides of MAX_BODY_SIZE, and nested ones.
BoundaryBodies ==
    { SizedBody(1), SizedBody(MAX_BODY_SIZE - 9), SizedBody(MAX_BODY_SIZE - 8),
      SizedBody(MAX_BODY_SIZE - 7), PaddedBody,
      RequestBody(TRUE, Encode(json_compact(LongSecretDocument)), TRUE,
                  LongSecretDocument),
      RequestBody(TRUE, Encode(json_compact(NestedDocument)), TRUE,
                  NestedDocument) }

\* response.body_iterator: the chunks still to come, whether the stream raises
\* once they are out (the application failed after it started the response),
\* and whether it is an async iterator (call_next's stream is one).
Stream(chunks, fails, aiter) == [chunks |-> chunks, fails |-> fails, aiter |-> aiter]

Response(status_code, content_type, body_iterator) ==
    [status_code |-> status_code, content_type |-> content_type,
     body_iterator |-> body_iterator]

PlainResponse ==
    Response(200, "application/json", Stream(<<<<123, 125>>>>, FALSE, TRUE))

\* The responses of the downstream continuation: a small JSON body, a body
\* of MAX_BODY_SIZE + 1 bytes in two chunks, an empty stream, a text body that
\* is not UTF-8, a body of a type that is not logged, and a stream that raises
\* after its first chunk.
Responses ==
    { PlainResponse,
      Response(200, "application/json",
               Stream(<<Rep(MAX_BODY_SIZE - 24, 97), Rep(25, 97)>>, FALSE, TRUE)),
      Response(404, "application/json", Stream(<<>>, FALSE, TRUE)),
      Response(200, "text/plain; charset=utf-8",
               Stream(<<<<97>>, <<255, 98>>>>, FALSE, TRUE)),
      Response(503, "image/png", Stream(<<<<255, 97>>>>, FALSE, TRUE)),
      Response(200, "application/json", Stream(<<<<97>>>>, TRUE, TRUE)) }

\* response.status_code on both sides of 400 and 500, and latencies on both
\* sides of LATENCY_THRESHOLD, in tenths of a second.
StatusCodes == {200, 399, 400, 404, 499, 500, 503}

LevelLatencies == {1, 19, 20, 21, 30}

\* A response of each status code, of a type that is not logged.
StatusResponses ==
    {Response(code, "image/png", Stream(<<>>, FALSE, TRUE)) :
        code \in StatusCodes}

NoResponse == Response(0, "", Stream(<<>>, FALSE, TRUE))

\* The inputs of the n-th request of a run: fixed in the warm-up, a few in
\* a run of many requests, all of the above in a wide run.
InWarmup(n) == n <= scenario.warmup

PathsOf(n) == IF InWarmup(n) THEN {"/items"} ELSE Paths

DrawsOf(n) ==
    IF InWarmup(n) THEN {0}
    ELSE IF scenario.wide THEN Draws
    ELSE FewDraws

ResponsesOf(n) ==
    IF InWarmup(n) THEN {PlainResponse}
    ELSE IF scenario.wide THEN Responses
    ELSE { PlainResponse,
           Response(503, "image/png", Stream(<<<<255, 97>>>>, FALSE, TRUE)),
           Response(200, "application/json", Stream(<<<<97>>>>, TRUE, TRUE)) }
         \cup (IF scenario.levels THEN StatusResponses ELSE {})

LatenciesOf(n) ==
    IF InWarmup(n) THEN {1}
    ELSE IF scenario.levels THEN LevelLatencies
    ELSE IF scenario.wide THEN Latencies
    ELSE IF scenario.slow THEN {1, 30}
    ELSE {1}

RequestBodiesOf(n) ==
    IF InWarmup(n) THEN {EmptyBody}
    ELSE IF scenario.bodies THEN RequestBodies \cup BoundaryBodies
    ELSE IF scenario.wide THEN RequestBodies
    ELSE {EmptyBody}

\* loggable_type in content_type, on the content types above.
IsSubstring(loggable_type, content_type) ==
    \/ loggable_type = content_type
    \/ loggable_type = "text/plain" /\ content_type = "text/plain; charset=utf-8"

(***************************************************************************)
(* The helpers of the middleware.                                          *)
(***************************************************************************)
\* uuid.uuid4(), for the n-th request: a value no other request gets.
uuid4(n) == 1000 + n

\* A gate that looks at the sample only.
SkipsUnsampled(path, draw, rate) == draw > rate

\* Line 58: the request is logged unless this holds.
SkipsLogging(path, draw, rate) == path \in EXCLUDED_PATHS \/ draw > rate

\* A classifier that looks at the latency first.
determine_log_level_by_latency(status_code, process_time) ==
    IF process_time > LATENCY_THRESHOLD THEN WARNING
    ELSE IF status_code >= 500 THEN ERROR
    ELSE IF status_code >= 400 THEN WARNING
    ELSE INFO

\* Lines 119-126
determine_log_level(status_code, process_time) ==
    IF status_code >= 500 THEN ERROR
    ELSE IF status_code >= 400 THEN WARNING
    ELSE IF process_time > LATENCY_THRESHOLD THEN WARNING
    ELSE INFO

\* Lines 129-135
get_request_body(b) ==
    IF ~b.readable \/ ~b.parses THEN UNABLE_TO_READ
    ELSE IF Len(b.raw) <= MAX_BODY_SIZE
         THEN Take(json_dumps(mask_sensitive_data(b.value)), MAX_BODY_SIZE)
         ELSE BODY_TOO_LARGE

\* Line 139
IsLoggable(content_type) ==
    \E loggable_type \in LOGGABLE_CONTENT_TYPES :
        IsSubstring(loggable_type, content_type)

\* A replay of the bytes that were logged only.
ReplayLogged(response_body) ==
    Stream(<<Take(response_body, MAX_BODY_SIZE)>>, FALSE, FALSE)

\* Line 143: iter([response_body])
ReplayIterator(response_body) == Stream(<<response_body>>, FALSE, FALSE)

\* Line 144: the content, or raised (decode() failed).
CapturedContent(response_body) ==
    IF Len(response_body) <= MAX_BODY_SIZE
    THEN Decode(Take(response_body, MAX_BODY_SIZE))
    ELSE [raised |-> FALSE, text |-> RESPONSE_TOO_LARGE]

\* The mapping left as it is.
IncrementNothing(counter, status_code) == counter

\* status_counter[status_code] = 1
IncrementFromZero(counter, status_code) ==
    [c \in DOMAIN counter \cup {status_code} |->
        IF c = status_code THEN 1 ELSE counter[c]]

\* status_counter[status_code] += 1
Increment(counter, status_code) ==
    IF status_code \in DOMAIN counter
    THEN [counter EXCEPT ![status_code] = @ + 1]
    ELSE [c \in DOMAIN counter \cup {status_code} |->
             IF c = status_code THEN 1 ELSE counter[c]]

\* Counter() and status_counter.clear()
EmptyCounter == [c \in {} |-> 0]

\* A test of the count made before the request is counted.
FlushDueBeforeCount(count) == (count - 1) % FLUSH_INTERVAL = 0

\* Line 109
FlushDue(count) == count % FLUSH_INTERVAL = 0

\* A log_async without its first branch.
SinkMethodNoError(log_level) ==
    IF log_level = WARNING THEN WARNING ELSE INFO

\* Lines 148-154: the logging function log_async calls.
SinkMethod(log_level) ==
    IF log_level = ERROR THEN ERROR
    ELSE IF log_level = WARNING THEN WARNING
    ELSE INFO

\* A worker that runs the newest item first.
DequeueNewest(queue) ==
    [item |-> queue[Len(queue)], rest |-> SubSeq(queue, 1, Len(queue) - 1)]

\* work_queue.get(): the item the worker runs next, and what stays queued.
Dequeue(queue) == [item |-> Head(queue), rest |-> Tail(queue)]

(***************************************************************************)
(* State.                                                                  *)
(***************************************************************************)
\* A slot: pc is where its coroutine stands in dispatch.
\*   idle      no request yet
\*   skip      line 59, awaiting call_next (the request is not logged)
\*   call      line 63, awaiting call_next
\*   body      line 130, awaiting request.body()
\*   drain     line 141, iterating response.body_iterator
\*   submit    line 114, about to call executor.submit
\*   returned  dispatch returned `response`
\*   raised    dispatch raised `exc`
\* serial counts the requests (the n-th to enter dispatch), draw is what
\* random.random() returned at line 58 (0 when the path is excluded and
\* nothing is drawn), downstream the response as call_next returned it,
\* caught the exception line 64 caught, exc and raised_by the exception
\* that left dispatch and where it came from, sent what request.body() and
\* json.loads gave and masked_body the local of line 132, after the requests
\* whose call_next had returned and that were still being captured when
\* call_next returned for this one (sent and masked_body are kept in a run
\* over the request bodies, after in a run over the order of the requests);
\* the other fields are the locals of dispatch and attributes of request.
IdleSlot ==
    [pc |-> "idle", serial |-> 0, draw |-> 0,
     correlation_id |-> 0, state_correlation_id |-> 0,
     method |-> "", path |-> "", client_host |-> "",
     downstream |-> NoResponse, response |-> NoResponse,
     process_time |-> 0, log_level |-> 0,
     sent |-> NoBody, masked_body |-> NoBody.value,
     body |-> <<>>, response_body |-> <<>>, content |-> <<>>,
     caught |-> "", exc |-> "", raised_by |-> "", after |-> {}]

Ended(s) == req[s].pc \in {"idle", "returned", "raised"}

\* A loop that lets another coroutine run between line 111 and line 114.
LoopPreempts == TRUE

\* The event loop runs one coroutine at a time: while one stands between
\* line 111 and line 114 (no await there) no other coroutine moves.
LoopFree == \A t \in Slots : req[t].pc # "submit"

Quiescent ==
    /\ \A t \in Slots : Ended(t)
    /\ work_queue = <<>>
    /\ worker_item = <<>>

\* A line of the sink: the logging function called (by its level), the
\* thread that called it and the message; what, serial and seq say which
\* kind of message it is, which request it is about (0: none) and which
\* submission to the executor it came from (0: none).
Line(level, thread, what, msg, serial, seq) ==
    [level |-> level, thread |-> thread, what |-> what, msg |-> msg,
     serial |-> serial, seq |-> seq]

\* The sink with one more line written (and its oldest line forgotten
\* when the run keeps a window; a run of Spec or SpecWide keeps them all).
Written(line) ==
    IF Len(sink) >= scenario.window
    THEN Append(Tail(sink), line)
    ELSE Append(sink, line)

\* An error record without the identifier of the request.
error_log_anonymous(r, e) ==
    [event_type |-> "http_request",
     correlation_id |-> 0,
     error |-> e,
     traceback |-> <<"Traceback (most recent call last):", e>>,
     method |-> r.method,
     url |-> r.path,
     client_ip |-> r.client_host]

\* Lines 65-74
error_log(r, e) ==
    [event_type |-> "http_request",
     correlation_id |-> r.correlation_id,
     error |-> e,
     traceback |-> <<"Traceback (most recent call last):", e>>,
     method |-> r.method,
     url |-> r.path,
     client_ip |-> r.client_host]

\* Line 76
JSONResponse500 ==
    Response(500, "application/json",
             Stream(<<INTERNAL_SERVER_ERROR_BODY>>, FALSE, TRUE))

\* A record that takes its identifier from the request that came in last.
log_details_latest(r) ==
    [event_type |-> "http_request",
     request |-> [method |-> r.method, url |-> r.path, body |-> r.body],
     response |-> [status_code |-> r.response.status_code,
                   content |-> r.content,
                   latency |-> r.process_time],
     metadata |-> [correlation_id |-> uuid4(started),
                   client_ip |-> r.client_host]]

\* Lines 83-104 (headers, query parameters, host name and version left out)
log_details(r) ==
    [event_type |-> "http_request",
     request |-> [method |-> r.method, url |-> r.path, body |-> r.body],
     response |-> [status_code |-> r.response.status_code,
                   content |-> r.content,
                   latency |-> r.process_time],
     metadata |-> [correlation_id |-> r.correlation_id,
                   client_ip |-> r.client_host]]

\* What a slot keeps of a request that has ended.
EndedSlot(r, pc, response, exc, raised_by) ==
    [r EXCEPT !.pc = pc, !.response = response, !.exc = exc,
              !.raised_by = raised_by, !.process_time = 0, !.log_level = 0, !.body = <<>>,
              !.sent = NoBody, !.masked_body = NoBody.value,
              !.response_body = <<>>, !.content = <<>>]

\* The slots once the request of slot s has ended as r: the request that
\* ended last is kept for inspection, those that ended before it are gone.
Ends(s, r) ==
    [t \in Slots |-> IF t = s THEN r
                     ELSE IF Ended(t) THEN IdleSlot
                     ELSE req[t]]

\* The run of Spec: a cold start, half of the requests sampled.
Init ==
    /\ scenario = [warmup |-> 0, limit |-> MaxRequests, wide |-> FALSE,
                   window |-> 2 * MaxRequests, levels |-> FALSE, bodies |-> FALSE, slow |-> FALSE, order |-> FALSE]
    /\ LOG_SAMPLE_RATE = 50
    /\ request_count = 0
    /\ status_counter = EmptyCounter
    /\ work_queue = <<>>
    /\ worker_item = <<>>
    /\ sink = <<>>
    /\ summaries = 0
    /\ req = [s \in Slots |-> IdleSlot]
    /\ started = 0
    /\ submitted = 0

\* The run of SpecWide: a cold start, every input.
InitWide ==
    /\ scenario = [warmup |-> 0, limit |-> WideRequests, wide |-> TRUE,
                   window |-> 2 * WideRequests, levels |-> FALSE, bodies |-> FALSE, slow |-> FALSE, order |-> FALSE]
    /\ LOG_SAMPLE_RATE \in Rates
    /\ request_count = 0
    /\ status_counter = EmptyCounter
    /\ work_queue = <<>>
    /\ worker_item = <<>>
    /\ sink = <<>>
    /\ summaries = 0
    /\ req = [s \in Slots |-> IdleSlot]
    /\ started = 0
    /\ submitted = 0

\* The run of SpecLevels: a cold start, every status code and latency.
InitLevels ==
    /\ scenario = [warmup |-> 0, limit |-> LevelRequests, wide |-> FALSE,
                   window |-> 2 * LevelRequests, levels |-> TRUE, bodies |-> FALSE, slow |-> FALSE, order |-> FALSE]
    /\ LOG_SAMPLE_RATE = 50
    /\ request_count = 0
    /\ status_counter = EmptyCounter
    /\ work_queue = <<>>
    /\ worker_item = <<>>
    /\ sink = <<>>
    /\ summaries = 0
    /\ req = [s \in Slots |-> IdleSlot]
    /\ started = 0
    /\ submitted = 0

\* The run of SpecBodies: a cold start, every request body.
InitBodies ==
    /\ scenario = [warmup |-> 0, limit |-> BodyRequests, wide |-> FALSE,
                   window |-> 2 * BodyRequests, levels |-> FALSE,
                   bodies |-> TRUE, slow |-> FALSE, order |-> FALSE]
    /\ LOG_SAMPLE_RATE = 50
    /\ request_count = 0
    /\ status_counter = EmptyCounter
    /\ work_queue = <<>>
    /\ worker_item = <<>>
    /\ sink = <<>>
    /\ summaries = 0
    /\ req = [s \in Slots |-> IdleSlot]
    /\ started = 0
    /\ submitted = 0

\* The run of SpecLive: a cold start, fast and slow responses.
InitLive ==
    /\ scenario = [warmup |-> 0, limit |-> LiveRequests, wide |-> FALSE,
                   window |-> 2 * LiveRequests, levels |-> FALSE,
                   bodies |-> FALSE, slow |-> TRUE, order |-> FALSE]
    /\ LOG_SAMPLE_RATE = 50
    /\ request_count = 0
    /\ status_counter = EmptyCounter
    /\ work_queue = <<>>
    /\ worker_item = <<>>
    /\ sink = <<>>
    /\ summaries = 0
    /\ req = [s \in Slots |-> IdleSlot]
    /\ started = 0
    /\ submitted = 0

\* The run of SpecOrder: a cold start, the order of the requests kept.
InitOrder ==
    /\ scenario = [warmup |-> 0, limit |-> OrderRequests, wide |-> FALSE,
                   window |-> 2 * OrderRequests, levels |-> FALSE,
                   bodies |-> FALSE, slow |-> FALSE, order |-> TRUE]
    /\ LOG_SAMPLE_RATE = 50
    /\ request_count = 0
    /\ status_counter = EmptyCounter
    /\ work_queue = <<>>
    /\ worker_item = <<>>
    /\ sink = <<>>
    /\ summaries = 0
    /\ req = [s \in Slots |-> IdleSlot]
    /\ started = 0
    /\ submitted = 0

\* The run of SpecAgg: the default sampling rate, a warm-up, then AggTail
\* requests.
InitAgg ==
    /\ scenario = [warmup |-> Warmup, limit |-> Warmup + AggTail, wide |-> FALSE,
                   window |-> SinkWindow, levels |-> FALSE, bodies |-> FALSE, slow |-> FALSE, order |-> FALSE]
    /\ LOG_SAMPLE_RATE = 100
    /\ request_count = 0
    /\ status_counter = EmptyCounter
    /\ work_queue = <<>>
    /\ worker_item = <<>>
    /\ sink = <<>>
    /\ summaries = 0
    /\ req = [s \in Slots |-> IdleSlot]
    /\ started = 0
    /\ submitted = 0

(***************************************************************************)
(* dispatch, from one await to the next.                                   *)
(***************************************************************************)
\* Lines 53-59 or 53-63: a request enters dispatch in the lowest free slot.
StartRequest(s) ==
    /\ started < scenario.limit
    /\ LoopFree
    /\ Ended(s)
    /\ \A t \in Slots : t < s => ~Ended(t)
    /\ InWarmup(started + 1) => Quiescent
    /\ \E path \in PathsOf(started + 1) :
       \E draw \in IF path \in EXCLUDED_PATHS THEN {0}
                   ELSE DrawsOf(started + 1) :
          req' = [req EXCEPT ![s] =
                    [IdleSlot EXCEPT
                       !.pc = IF SkipsLogging(path, draw, LOG_SAMPLE_RATE)
                              THEN "skip" ELSE "call",
                       !.draw = draw,
                       !.serial = started + 1,
                       !.correlation_id = uuid4(started + 1),
                       !.state_correlation_id = uuid4(started + 1),
                       !.method = "POST",
                       !.path = path,
                       !.client_host = "10.0.0.7"]]
    /\ started' = started + 1
    /\ UNCHANGED <<scenario, LOG_SAMPLE_RATE, request_count, status_counter,
                   work_queue, worker_item, sink, summaries, submitted>>

\* Line 59: call_next returns and dispatch returns its response as it is.
SkipRespond(s) ==
    /\ req[s].pc = "skip"
    /\ LoopFree
    /\ \E response \in ResponsesOf(req[s].serial) :
          req' = Ends(s, EndedSlot([req[s] EXCEPT !.downstream = response],
                                   "returned", response, "", ""))
    /\ UNCHANGED <<scenario, LOG_SAMPLE_RATE, request_count, status_counter,
                   work_queue, worker_item, sink, summaries, started, submitted>>

\* Line 59: call_next raises, outside the try of line 62.
SkipRaise(s) ==
    /\ req[s].pc = "skip"
    /\ LoopFree
    /\ \E e \in Errors :
          req' = Ends(s, EndedSlot(req[s], "raised", NoResponse, e, "call_next"))
    /\ UNCHANGED <<scenario, LOG_SAMPLE_RATE, request_count, status_counter,
                   work_queue, worker_item, sink, summaries, started, submitted>>

\* Lines 63, 79-80 and 91: call_next returns; up to the await of
\* request.body().
DownstreamRespond(s) ==
    /\ req[s].pc = "call"
    /\ LoopFree
    /\ \E response \in ResponsesOf(req[s].serial),
          process_time \in LatenciesOf(req[s].serial) :
          req' = [req EXCEPT ![s] =
                    [@ EXCEPT
                       !.pc = "body",
                       !.downstream = response,
                       !.response = response,
                       !.after = IF scenario.order
                                 THEN {req[t].serial :
                                         t \in {u \in Slots :
                                                  req[u].pc \in {"body", "drain"}}}
                                 ELSE {},
                       !.process_time = process_time,
                       !.log_level =
                           determine_log_level(response.status_code,
                                               process_time)]]
    /\ UNCHANGED <<scenario, LOG_SAMPLE_RATE, request_count, status_counter,
                   work_queue, worker_item, sink, summaries, started, submitted>>

\* A dispatch that logs the error and raises it again.
DownstreamReraise(s) ==
    /\ req[s].pc = "call"
    /\ LoopFree
    /\ ~InWarmup(req[s].serial)
    /\ \E e \in Errors :
          /\ sink' = Written(Line(ERROR, "loop", "error",
                                  error_log(req[s], e), req[s].serial, 0))
          /\ req' = Ends(s, EndedSlot(req[s], "raised", NoResponse, e,
                                      "call_next"))
    /\ UNCHANGED <<scenario, LOG_SAMPLE_RATE, request_count, status_counter,
                   work_queue, worker_item, summaries, started, submitted>>

\* A dispatch that counts the 500 it answers with.
DownstreamRaiseCounted(s) ==
    /\ req[s].pc = "call"
    /\ LoopFree
    /\ ~InWarmup(req[s].serial)
    /\ \E e \in Errors :
          /\ sink' = Written(Line(ERROR, "loop", "error",
                                  error_log(req[s], e), req[s].serial, 0))
          /\ req' = Ends(s, EndedSlot([req[s] EXCEPT !.caught = e],
                                      "returned", JSONResponse500, "", ""))
    /\ request_count' = request_count
    /\ status_counter' = Increment(status_counter, 500)
    /\ UNCHANGED <<scenario, LOG_SAMPLE_RATE, work_queue, worker_item,
                   summaries, started, submitted>>

\* Lines 64-76: call_next raises; the error is logged and a 500 returned.
DownstreamRaise(s) ==
    /\ req[s].pc = "call"
    /\ LoopFree
    /\ ~InWarmup(req[s].serial)
    /\ \E e \in Errors :
          /\ sink' = Written(Line(ERROR, "loop", "error",
                                  error_log(req[s], e), req[s].serial, 0))
          /\ req' = Ends(s, EndedSlot([req[s] EXCEPT !.caught = e],
                                      "returned", JSONResponse500, "", ""))
    /\ UNCHANGED <<scenario, LOG_SAMPLE_RATE, request_count, status_counter,
                   work_queue, worker_item, summaries, started, submitted>>

\* Lines 106-111, with the content of line 95 in hand: count the response,
\* log and clear the summary when it is due, and stand at line 114.
Aggregate(s, r, content) ==
    LET count == request_count + 1
        counter == Increment(status_counter, r.response.status_code)
    IN  /\ request_count' = count
        /\ IF FlushDue(count)
           THEN /\ sink' = Written(Line(INFO, "loop", "summary", counter, 0, 0))
                /\ summaries' = summaries + 1
                /\ status_counter' = EmptyCounter
           ELSE /\ sink' = sink
                /\ summaries' = summaries
                /\ status_counter' = counter
        /\ req' = [req EXCEPT ![s] =
                     [r EXCEPT !.pc = "submit", !.content = content]]

\* Lines 128-135 and 137-141: request.body() returns or raises; either way
\* the body field is settled.  A response of a type that is not logged is
\* left alone and dispatch goes on to line 114; otherwise the drain begins.
ReadRequestBody(s) ==
    /\ req[s].pc = "body"
    /\ LoopFree
    /\ \E b \in RequestBodiesOf(req[s].serial) :
          LET r == [req[s] EXCEPT
                      !.sent = IF scenario.bodies THEN b ELSE NoBody,
                      !.masked_body = IF scenario.bodies /\ b.readable /\ b.parses
                                      THEN mask_sensitive_data(b.value)
                                      ELSE NoBody.value,
                      !.body = get_request_body(b)]
          IN  IF IsLoggable(r.response.content_type)
              THEN /\ req' = [req EXCEPT ![s] = [r EXCEPT !.pc = "drain"]]
                   /\ UNCHANGED <<request_count, status_counter, sink, summaries>>
              ELSE Aggregate(s, r, SKIPPED_CONTENT_TYPE)
    /\ UNCHANGED <<scenario, LOG_SAMPLE_RATE, work_queue, worker_item,
                   started, submitted>>

\* Lines 141-142: the stream yields its next chunk.
DrainChunk(s) ==
    /\ req[s].pc = "drain"
    /\ LoopFree
    /\ req[s].response.body_iterator.chunks # <<>>
    /\ req' = [req EXCEPT ![s] =
                 [@ EXCEPT
                    !.response_body = @ \o Head(req[s].response.body_iterator.chunks),
                    !.response.body_iterator.chunks = Tail(@)]]
    /\ UNCHANGED <<scenario, LOG_SAMPLE_RATE, request_count, status_counter,
                   work_queue, worker_item, sink, summaries, started, submitted>>

\* Line 141: the stream raises; nothing in dispatch catches it.
DrainRaise(s) ==
    /\ req[s].pc = "drain"
    /\ LoopFree
    /\ req[s].response.body_iterator.chunks = <<>>
    /\ req[s].response.body_iterator.fails
    /\ req' = Ends(s, EndedSlot(req[s], "raised", NoResponse, "stream failed",
                             "body_iterator"))
    /\ UNCHANGED <<scenario, LOG_SAMPLE_RATE, request_count, status_counter,
                   work_queue, worker_item, sink, summaries, started, submitted>>

\* Lines 143-144, then 106-111: the stream ends; the iterator is replaced
\* and the content settled, or decode() raises out of dispatch.
DrainEnd(s) ==
    /\ req[s].pc = "drain"
    /\ LoopFree
    /\ req[s].response.body_iterator.chunks = <<>>
    /\ ~req[s].response.body_iterator.fails
    /\ LET r == [req[s] EXCEPT
                   !.response.body_iterator = ReplayIterator(req[s].response_body)]
           captured == CapturedContent(req[s].response_body)
       IN  IF captured.raised
           THEN /\ req' = Ends(s, EndedSlot(r, "raised", NoResponse,
                                            "UnicodeDecodeError", "decode"))
                /\ UNCHANGED <<request_count, status_counter, sink, summaries>>
           ELSE Aggregate(s, r, captured.text)
    /\ UNCHANGED <<scenario, LOG_SAMPLE_RATE, work_queue, worker_item,
                   started, submitted>>

\* A dispatcher that puts the record at the head of the queue.
SubmitAtHead(s) ==
    /\ req[s].pc = "submit"
    /\ work_queue' = <<[log_message |-> log_details(req[s]),
                        log_level |-> req[s].log_level,
                        serial |-> req[s].serial,
                        seq |-> submitted + 1]>> \o work_queue
    /\ submitted' = submitted + 1
    /\ req' = Ends(s, EndedSlot(req[s], "returned", req[s].response, "", ""))
    /\ UNCHANGED <<scenario, LOG_SAMPLE_RATE, request_count, status_counter,
                   worker_item, sink, summaries, started>>

\* A dispatcher that hands the record over only to an idle worker.
SubmitWhenIdle(s) ==
    /\ req[s].pc = "submit"
    /\ work_queue = <<>>
    /\ worker_item = <<>>
    /\ work_queue' = <<[log_message |-> log_details(req[s]),
                        log_level |-> req[s].log_level,
                        serial |-> req[s].serial,
                        seq |-> submitted + 1]>>
    /\ submitted' = submitted + 1
    /\ req' = Ends(s, EndedSlot(req[s], "returned", req[s].response, "", ""))
    /\ UNCHANGED <<scenario, LOG_SAMPLE_RATE, request_count, status_counter,
                   worker_item, sink, summaries, started>>

\* Lines 114-116: executor.submit(self.log_async, json.dumps(log_details),
\* log_level), then return response.  The message is kept as the record.
Submit(s) ==
    /\ req[s].pc = "submit"
    /\ work_queue' = Append(work_queue,
                            [log_message |-> log_details(req[s]),
                             log_level |-> req[s].log_level,
                             serial |-> req[s].serial,
                             seq |-> submitted + 1])
    /\ submitted' = submitted + 1
    /\ req' = Ends(s, EndedSlot(req[s], "returned", req[s].response, "", ""))
    /\ UNCHANGED <<scenario, LOG_SAMPLE_RATE, request_count, status_counter,
                   worker_item, sink, summaries, started>>

(***************************************************************************)
(* The executor's worker thread (max_workers=1).                           *)
(***************************************************************************)
WorkerTake ==
    /\ worker_item = <<>>
    /\ work_queue # <<>>
    /\ worker_item' = <<Dequeue(work_queue).item>>
    /\ work_queue' = Dequeue(work_queue).rest
    /\ UNCHANGED <<scenario, LOG_SAMPLE_RATE, request_count, status_counter,
                   sink, summaries, req, started, submitted>>

\* Lines 148-154: log_async runs.
WorkerEmit ==
    /\ worker_item # <<>>
    /\ sink' = Written(Line(SinkMethod(worker_item[1].log_level), "worker",
                            "request", worker_item[1].log_message,
                            worker_item[1].serial, worker_item[1].seq))
    /\ worker_item' = <<>>
    /\ UNCHANGED <<scenario, LOG_SAMPLE_RATE, request_count, status_counter,
                   work_queue, summaries, req, started, submitted>>

Next ==
    \/ \E s \in Slots : StartRequest(s)
    \/ \E s \in Slots : SkipRespond(s)
    \/ \E s \in Slots : SkipRaise(s)
    \/ \E s \in Slots : DownstreamRespond(s)
    \/ \E s \in Slots : DownstreamRaise(s)
    \/ \E s \in Slots : ReadRequestBody(s)
    \/ \E s \in Slots : DrainChunk(s)
    \/ \E s \in Slots : DrainRaise(s)
    \/ \E s \in Slots : DrainEnd(s)
    \/ \E s \in Slots : Submit(s)
    \/ WorkerTake
    \/ WorkerEmit

Spec == Init /\ [][Next]_vars

SpecWide == InitWide /\ [][Next]_vars

SpecAgg == InitAgg /\ [][Next]_vars

SpecLevels == InitLevels /\ [][Next]_vars

SpecBodies == InitBodies /\ [][Next]_vars

SpecOrder == InitOrder /\ [][Next]_vars

\* The worker is a thread of its own: the operating system keeps scheduling
\* it, whatever the event loop does.
SpecLive ==
    InitLive /\ [][Next]_vars /\ WF_vars(WorkerTake) /\ WF_vars(WorkerEmit)

(***************************************************************************)
(* Properties.                                                             *)
(***************************************************************************)
\* The submissions whose record the worker has written, oldest first.
EmittedSeqs ==
    LET lines == SelectSeq(sink, LAMBDA l : l.what = "request")
    IN  [i \in 1..Len(lines) |-> lines[i].seq]

\* The submissions the worker is running or has still to take.
PendingSeqs ==
    LET items == worker_item \o work_queue
    IN  [i \in 1..Len(items) |-> items[i].seq]

\* The lines of the sink and the items of the executor about request n.
LinesOf(n) == {i \in DOMAIN sink : sink[i].serial = n}
ItemsOf(n) == {i \in DOMAIN (worker_item \o work_queue) :
                  (worker_item \o work_queue)[i].serial = n}

InFlight(s) == req[s].pc \in {"skip", "call", "body", "drain", "submit"}

\* C1: the records submitted to the executor reach the sink in the order of
\* their submission: at any time the records written so far, followed by the
\* one being written and those queued, are the submissions 1, 2, ... in order.
C1_SubmissionOrder ==
    EmittedSeqs \o PendingSeqs = [i \in 1..submitted |-> i]

\* One record is written while two later ones wait in the queue.
C1_Witness ==
    /\ EmittedSeqs = <<1>>
    /\ Len(work_queue) = 2

\* C2: executor.submit never blocks the request: wherever a request stands
\* at line 114, whatever the worker does and however many items wait, the
\* step that queues its record and returns its response can be taken, and it
\* leaves the sink and the worker as they are.
C2_SubmitStep(s) ==
    /\ Submit(s)
    /\ req'[s].pc = "returned"
    /\ sink' = sink
    /\ worker_item' = worker_item

C2_SubmitNeverBlocks ==
    \A s \in Slots : req[s].pc = "submit" => ENABLED C2_SubmitStep(s)

\* A request has returned; its record waits in the queue behind another one
\* while the worker is busy writing a third.
C2_Witness ==
    \E s \in Slots :
        /\ req[s].pc = "returned"
        /\ worker_item # <<>>
        /\ Len(work_queue) >= 2
        /\ work_queue[Len(work_queue)].serial = req[s].serial

C4_ErrorPath ==
    \A s \in Slots :
        (req[s].pc = "returned" /\ req[s].caught # "")
        => /\ req[s].response.status_code = 500
           /\ Concat(req[s].response.body_iterator.chunks)
                = INTERNAL_SERVER_ERROR_BODY
           /\ Cardinality(LinesOf(req[s].serial)) = 1
           /\ \A i \in LinesOf(req[s].serial) :
                 /\ sink[i].level = ERROR
                 /\ sink[i].thread = "loop"
                 /\ sink[i].what = "error"
                 /\ sink[i].msg.error = req[s].caught
                 /\ sink[i].msg.traceback # <<>>
                 /\ sink[i].msg.method = req[s].method
                 /\ sink[i].msg.url = req[s].path
                 /\ sink[i].msg.client_ip = req[s].client_host
                 /\ sink[i].msg.correlation_id = req[s].state_correlation_id
           /\ ItemsOf(req[s].serial) = {}

\* A request has ended on the error path while another one is being handled
\* and an earlier record waits for the worker.
C4_Witness ==
    \E s, t \in Slots :
        /\ req[s].pc = "returned"
        /\ req[s].caught = "boom"
        /\ InFlight(t)
        /\ work_queue # <<>>

\* C5 (as claimed): whichever request it is, an exception that call_next
\* raises never leaves dispatch.
C5_NeverPropagated ==
    \A s \in Slots :
        ~(req[s].pc = "raised" /\ req[s].raised_by = "call_next")

\* C5 (as amended): an exception that call_next raises for a request the
\* gate lets through is caught: dispatch returns the generic 500 response
\* and raises nothing; such an exception leaves dispatch only for a request
\* that the gate skips.
C5_RecoveredWhenInstrumented ==
    \A s \in Slots :
        /\ (req[s].pc = "raised" /\ req[s].raised_by = "call_next")
              => (req[s].path \in EXCLUDED_PATHS
                    \/ req[s].draw > LOG_SAMPLE_RATE)
        /\ req[s].caught # ""
              => /\ req[s].pc = "returned"
                 /\ req[s].exc = ""
                 /\ req[s].response.status_code = 500
                 /\ Concat(req[s].response.body_iterator.chunks)
                        = INTERNAL_SERVER_ERROR_BODY

\* A sampled request whose call_next raised has been answered.
C5_Witness ==
    \E s \in Slots :
        /\ req[s].path = "/items"
        /\ req[s].draw = 50
        /\ req[s].caught = "boom"
        /\ req[s].pc = "returned"
        /\ req[s].response = JSONResponse500

\* What holds of a skipped request in every state: it never stands past
\* line 59, the response it returns is the one call_next gave, with the
\* stream as it was, and neither the sink nor the executor holds anything
\* about it.
C6_SkippedState ==
    \A s \in Slots :
        (req[s].serial > 0
           /\ (req[s].path \in EXCLUDED_PATHS \/ req[s].draw > LOG_SAMPLE_RATE))
        => /\ req[s].pc \in {"skip", "returned", "raised"}
           /\ req[s].pc = "returned" => req[s].response = req[s].downstream
           /\ req[s].caught = ""
           /\ LinesOf(req[s].serial) = {}
           /\ ItemsOf(req[s].serial) = {}

\* What holds of every step of a skipped request: nothing is written,
\* submitted or counted.
C6_SkippedStep ==
    \A s \in Slots :
        (req[s].pc = "skip" /\ req'[s] # req[s])
        => UNCHANGED <<sink, work_queue, worker_item, request_count,
                       status_counter, summaries, submitted>>

\* C6: a request whose path is excluded or whose draw exceeds the sampling
\* rate is skipped: call_next is invoked and its response returned as it is,
\* the body stream neither drained nor replaced, and no request record, error
\* record or summary is written or submitted for it.
C6_SkippedUntouched == []C6_SkippedState /\ [][C6_SkippedStep]_vars

\* An unsampled request has returned a response whose stream still holds its
\* chunk, after another request was logged.
C6_Witness ==
    \E s \in Slots :
        /\ req[s].pc = "returned"
        /\ req[s].path = "/items"
        /\ req[s].draw = 99
        /\ req[s].response.body_iterator.chunks # <<>>
        /\ req[s].response.body_iterator.aiter
        /\ submitted >= 1

\* C7: with a sampling rate of 0.0 nothing is ever submitted to the
\* executor, whatever random.random() returns.
C7_RateZeroSubmitsNothing ==
    LOG_SAMPLE_RATE = 0 => submitted = 0

\* C8: with a sampling rate of 1.0 every request whose path is not excluded,
\* once dispatch has ended, has exactly one record, written or on its way.
C8_ExactlyOneRecord ==
    \A s \in Slots :
        (LOG_SAMPLE_RATE = 100
           /\ req[s].pc \in {"returned", "raised"}
           /\ req[s].path \notin EXCLUDED_PATHS)
        => Cardinality(LinesOf(req[s].serial))
             + Cardinality(ItemsOf(req[s].serial)) = 1

\* The correlation id a line of the sink or an item of the executor carries.
LineCorrelationId(line) ==
    IF line.what = "error" THEN line.msg.correlation_id
    ELSE line.msg.metadata.correlation_id

ItemCorrelationId(item) == item.log_message.metadata.correlation_id

\* The (request, correlation id) pairs of all records, written or queued.
RecordIds ==
    {<<sink[i].serial, LineCorrelationId(sink[i])>> :
        i \in {j \in DOMAIN sink : sink[j].what # "summary"}}
    \cup {<<(worker_item \o work_queue)[i].serial,
            ItemCorrelationId((worker_item \o work_queue)[i])>> :
             i \in DOMAIN (worker_item \o work_queue)}

\* C9: every request, skipped or not, has a fresh correlation id in its
\* state from before the gate on; a record about a request carries the id of
\* that request's state, and records of different requests carry different
\* ids, with several requests in flight.
C9_CorrelationId ==
    /\ \A s \in Slots :
          req[s].serial > 0
          => /\ req[s].state_correlation_id # 0
             /\ \A t \in Slots :
                   (t # s /\ req[t].serial > 0)
                   => req[t].state_correlation_id # req[s].state_correlation_id
             /\ \A rec \in RecordIds :
                   rec[1] = req[s].serial
                   => rec[2] = req[s].state_correlation_id
    /\ \A a, b \in RecordIds : a[1] # b[1] => a[2] # b[2]

\* The record of a request is queued while a later request is in flight.
C9_Witness ==
    \E s, t \in Slots :
        /\ req[s].pc = "returned"
        /\ ItemsOf(req[s].serial) # {}
        /\ InFlight(t)
        /\ req[t].serial > req[s].serial
        /\ req[t].pc = "drain"

\* The sum of the counts of a mapping.
RECURSIVE Total(_)
Total(counter) ==
    IF DOMAIN counter = {} THEN 0
    ELSE LET c == CHOOSE c \in DOMAIN counter : TRUE
         IN  counter[c]
               + Total([d \in DOMAIN counter \ {c} |-> counter[d]])

\* What holds of the aggregator in every state: floor(n / 100) summaries
\* after n logged requests, an empty mapping right after a flush, and a
\* single entry of count 1 after the 101st.
C10_FlushState ==
    /\ summaries = request_count \div FLUSH_INTERVAL
    /\ request_count % FLUSH_INTERVAL = 0 => DOMAIN status_counter = {}
    /\ request_count = FLUSH_INTERVAL + 1
          => \E c \in DOMAIN status_counter :
                /\ DOMAIN status_counter = {c}
                /\ status_counter[c] = 1

\* What holds of every step: a step that counts a request writes a summary
\* exactly when the count becomes a multiple of 100, the summary holds the
\* 100 requests since the last one, the one that triggered it among them,
\* and the mapping is empty after it; a step that counts without flushing
\* lowers no entry, and no other step touches the mapping or writes a
\* summary.
C10_FlushStep ==
    IF request_count' # request_count
    THEN /\ request_count' = request_count + 1
         /\ IF request_count' % FLUSH_INTERVAL = 0
            THEN /\ summaries' = summaries + 1
                 /\ sink' # sink
                 /\ LET last == sink'[Len(sink')]
                    IN  /\ last.what = "summary"
                        /\ last.level = INFO
                        /\ Total(last.msg) = FLUSH_INTERVAL
                        /\ \A c \in DOMAIN status_counter :
                              /\ c \in DOMAIN last.msg
                              /\ last.msg[c] >= status_counter[c]
                        /\ \E s \in Slots :
                              /\ req[s].pc # "submit"
                              /\ req'[s].pc = "submit"
                              /\ req'[s].response.status_code
                                    \in DOMAIN last.msg
                              /\ last.msg[req'[s].response.status_code]
                                    > IF req'[s].response.status_code
                                           \in DOMAIN status_counter
                                      THEN status_counter[
                                              req'[s].response.status_code]
                                      ELSE 0
                 /\ DOMAIN status_counter' = {}
            ELSE /\ summaries' = summaries
                 /\ Total(status_counter') = Total(status_counter) + 1
                 /\ \A c \in DOMAIN status_counter :
                       /\ c \in DOMAIN status_counter'
                       /\ status_counter'[c] >= status_counter[c]
    ELSE /\ status_counter' = status_counter
         /\ summaries' = summaries
         /\ (sink' # sink => sink'[Len(sink')].what # "summary")

\* C10: the aggregator flushes exactly at the multiples of 100: a summary is
\* written exactly when the count becomes a multiple of 100, with the mapping
\* that includes the request that triggered it; the mapping is empty right
\* after and is cleared at no other time; after n logged requests
\* floor(n / 100) summaries have been written, and after the 101st the
\* mapping has a single entry, of count 1.
C10_FlushAtMultiples == []C10_FlushState /\ [][C10_FlushStep]_vars

\* The 101st logged request has been counted, one summary behind it.
C10_Witness ==
    /\ request_count = FLUSH_INTERVAL + 1
    /\ summaries = 1
    /\ Total(status_counter) = 1
    /\ \E i \in DOMAIN sink : sink[i].what = "summary" /\ 503 \in DOMAIN sink[i].msg

\* counter[c] of a collections.Counter: 0 for a key it does not hold.
Count(counter, c) == IF c \in DOMAIN counter THEN counter[c] ELSE 0

\* The mapping as lines 107-108 leave it in a step that counts a request:
\* the one logged in the summary when the step flushes, the new mapping
\* otherwise.
CountedMapping ==
    IF summaries' # summaries THEN sink'[Len(sink')].msg ELSE status_counter'

\* The step takes the request of slot s through lines 107-111.
Aggregates(s) == req[s].pc \in {"body", "drain"} /\ req'[s].pc = "submit"

C11_CounterStep ==
    /\ request_count' >= request_count
    /\ request_count' # request_count => \E s \in Slots : Aggregates(s)
    /\ \A s \in Slots :
          Aggregates(s)
          => LET code == req'[s].response.status_code
             IN  /\ request_count' = request_count + 1
                 /\ Count(CountedMapping, code)
                       = Count(status_counter, code) + 1
                 /\ \A c \in (DOMAIN CountedMapping
                                \cup DOMAIN status_counter) \ {code} :
                       Count(CountedMapping, c) = Count(status_counter, c)

\* C11: request_count never decreases and is never reset; every logged
\* response raises it by exactly one and raises the entry of its status code
\* in the mapping by exactly one, and nothing else changes either.
C11_CounterMonotone == [][C11_CounterStep]_vars

\* The count stands at 100 after the flush that emptied the mapping.
C11_Witness ==
    /\ request_count = FLUSH_INTERVAL
    /\ summaries = 1
    /\ DOMAIN status_counter = {}
    /\ \E s \in Slots : req[s].pc = "submit" /\ req[s].serial >= FLUSH_INTERVAL

\* C12: determine_log_level gives ERROR for a status of 500 or more, else
\* WARNING for a status of 400 or more, else WARNING for a latency above
\* LATENCY_THRESHOLD, else INFO: a 4xx or 5xx status decides whatever the
\* latency, and a latency equal to the threshold with a status under 400 is
\* INFO.
C12_LogLevel ==
    \A s \in Slots :
        req[s].pc \in {"body", "drain", "submit"}
        => LET status == req[s].response.status_code
               latency == req[s].process_time
           IN  /\ status >= 500 => req[s].log_level = ERROR
               /\ (status >= 400 /\ status < 500) => req[s].log_level = WARNING
               /\ (status < 400 /\ latency > LATENCY_THRESHOLD)
                     => req[s].log_level = WARNING
               /\ (status < 400 /\ latency <= LATENCY_THRESHOLD)
                     => req[s].log_level = INFO
               /\ req[s].log_level \in {ERROR, WARNING, INFO}

\* A 399 at the threshold is INFO while a slow 500 is on its way as ERROR.
C12_Witness ==
    /\ \E s \in Slots :
          /\ req[s].pc = "submit"
          /\ req[s].response.status_code = 399
          /\ req[s].process_time = LATENCY_THRESHOLD
          /\ req[s].log_level = INFO

\* C13: for a request body that parses as JSON, the captured body is "Body
\* too large to log" exactly when the masked body as json.dumps writes it is
\* longer than MAX_BODY_SIZE, and is that serialization otherwise (one of
\* exactly MAX_BODY_SIZE included).
C13_SizeOfSerialized ==
    \A s \in Slots :
        (req[s].pc \in {"drain", "submit"}
           /\ req[s].sent.readable /\ req[s].sent.parses)
        => LET serialized ==
                   json_dumps(mask_sensitive_data(req[s].sent.value))
           IN  req[s].body = IF Len(serialized) > MAX_BODY_SIZE
                             THEN BODY_TOO_LARGE
                             ELSE serialized

\* C14: a failure while a body is read or decoded during capture is
\* recovered in the capture unit: an unreadable or unparsable request body is
\* logged as its sentinel, and neither a response stream that raises nor
\* response bytes that are not text make dispatch raise; it returns the
\* downstream response and produces the record.
C14_CaptureRecovered ==
    \A s \in Slots :
        /\ (req[s].pc \in {"drain", "submit"}
              /\ ~(req[s].sent.readable /\ req[s].sent.parses))
           => req[s].body = UNABLE_TO_READ
        /\ ~(req[s].pc = "raised"
               /\ req[s].raised_by \in {"body_iterator", "decode"})

\* Every sensitive key of a value is masked, at any depth and under any
\* container.
RECURSIVE MaskedEverywhere(_)
MaskedEverywhere(data) ==
    CASE data.t = "dict" ->
            \A i \in 1..Len(data.v) :
               IF lower(data.v[i].k) \in SENSITIVE_FIELDS
               THEN data.v[i].v = JStr(MASK)
               ELSE MaskedEverywhere(data.v[i].v)
      [] data.t = "list" ->
            \A i \in 1..Len(data.v) : MaskedEverywhere(data.v[i])
      [] OTHER -> TRUE

\* C15 (as claimed): in the result of mask_sensitive_data every key whose
\* lowercase name is sensitive holds the mask, whatever containers lie
\* between it and the root.
C15_MaskedAtEveryDepth ==
    \A s \in Slots :
        (req[s].pc \in {"drain", "submit"}
           /\ req[s].sent.readable /\ req[s].sent.parses)
        => MaskedEverywhere(req[s].masked_body)

\* out is data with the sensitive keys reached through objects masked: an
\* object keeps its keys in order, a sensitive key holds the mask whatever
\* it held, any other key holds its value redacted the same way; arrays and
\* scalars are as they were.
RECURSIVE RedactedThroughObjects(_, _)
RedactedThroughObjects(data, out) ==
    IF data.t = "dict"
    THEN /\ out.t = "dict"
         /\ Len(out.v) = Len(data.v)
         /\ \A i \in 1..Len(data.v) :
               /\ out.v[i].k = data.v[i].k
               /\ IF lower(data.v[i].k) \in SENSITIVE_FIELDS
                  THEN out.v[i].v = JStr(MASK)
                  ELSE RedactedThroughObjects(data.v[i].v, out.v[i].v)
    ELSE out = data

\* C15 (as amended): every key whose lowercase name is sensitive and that is
\* reached from the root through objects only holds the mask, whatever it
\* held; every other such key keeps its redacted value; arrays pass through
\* unchanged, the objects inside them unmasked.
C15_MaskedThroughObjects ==
    \A s \in Slots :
        (req[s].pc \in {"drain", "submit"}
           /\ req[s].sent.readable /\ req[s].sent.parses)
        => RedactedThroughObjects(req[s].sent.value, req[s].masked_body)

\* The nested document has been redacted: the key two objects down and the
\* one holding an object are masked.
C15_Witness ==
    \E s \in Slots :
        /\ req[s].pc = "submit"
        /\ req[s].sent.value = NestedDocument
        /\ req[s].masked_body.v[2].v.v[1].v.v[1].v = JStr(MASK)
        /\ req[s].masked_body.v[3].v = JStr(MASK)
        /\ req[s].masked_body.v[1] = NestedDocument.v[1]

\* The requests that have gone through lines 107-111 and not yet through
\* line 114.
Aggregating == {s \in Slots : req[s].pc = "submit"}

\* C16: on the event loop the aggregator update of a request is never
\* interleaved with that of another: at most one request stands between
\* its update and its submission; when N requests have reached aggregation
\* the count is N, none lost, and every multiple of 100 crossed has given
\* exactly one summary.
C16_AggregationAtomic ==
    /\ Cardinality(Aggregating) <= 1
    /\ request_count = submitted + Cardinality(Aggregating)
    /\ summaries * FLUSH_INTERVAL <= request_count
    /\ request_count < (summaries + 1) * FLUSH_INTERVAL

\* The 100th request has just been counted, and the summary written, while
\* another request is being captured.
C16_Witness ==
    \E s, t \in Slots :
        /\ req[s].pc = "submit"
        /\ req[t].pc = "drain"
        /\ request_count = FLUSH_INTERVAL
        /\ summaries = 1
        /\ sink[Len(sink)].what = "summary"

\* What C17 rules out of a step: request a submits its record although
\* request b, whose call_next returned after that of a, has submitted its
\* own already.
C17_Overtaken ==
    \E a, b \in Slots :
        /\ req[a].pc = "submit"
        /\ req'[a].pc = "returned"
        /\ req[b].pc = "returned"
        /\ req[b].caught = ""
        /\ req[a].serial \in req[b].after
        /\ LinesOf(req[b].serial) \cup ItemsOf(req[b].serial) # {}

\* C17 (as claimed): the records reach the sink in the order in which
\* call_next returned: when call_next of request A returns before that of
\* request B, both logged, the record of A goes before that of B.
C17_OrderOfDownstreamReturn == [][~C17_Overtaken]_vars

\* C17 (as amended): the records reach the sink in the order in which the
\* requests reached line 114: a record written earlier was submitted
\* earlier, and every record still waiting was submitted after all those
\* written.
C17_OrderOfSubmission ==
    /\ \A i, j \in DOMAIN EmittedSeqs :
          i < j => EmittedSeqs[i] < EmittedSeqs[j]
    /\ \A i \in DOMAIN EmittedSeqs, k \in DOMAIN PendingSeqs :
          EmittedSeqs[i] < PendingSeqs[k]
    /\ \A k, l \in DOMAIN PendingSeqs :
          k < l => PendingSeqs[k] < PendingSeqs[l]

\* The record of the second request has been written before that of the
\* first, which was submitted after it.
C17_Witness ==
    \E i, j \in DOMAIN sink :
        /\ i < j
        /\ sink[i].what = "request" /\ sink[j].what = "request"
        /\ sink[i].serial = 2 /\ sink[j].serial = 1
        /\ sink[i].seq = 1 /\ sink[j].seq = 2

\* How often submission n is found among the records written, being
\* written or waiting.
Copies(n) ==
    Cardinality({i \in DOMAIN (EmittedSeqs \o PendingSeqs) :
                    (EmittedSeqs \o PendingSeqs)[i] = n})

\* Every submission is there once: none dropped, none duplicated.
C18_OnceEach == \A n \in 1..submitted : Copies(n) = 1

\* A step in which the worker finishes an item writes that item's message,
\* through logging.error for ERROR, logging.warning for WARNING and
\* logging.info for anything else.
C18_EmitStep ==
    (worker_item # <<>> /\ worker_item' = <<>>)
    => /\ Len(sink') = Len(sink) + 1
       /\ SubSeq(sink', 1, Len(sink)) = sink
       /\ LET line == sink'[Len(sink')]
              item == worker_item[1]
          IN  /\ line.thread = "worker"
              /\ line.msg = item.log_message
              /\ line.seq = item.seq
              /\ line.level = CASE item.log_level = ERROR -> ERROR
                                [] item.log_level = WARNING -> WARNING
                                [] OTHER -> INFO

\* Submission n has been written to the sink.
Emitted(n) == \E i \in DOMAIN EmittedSeqs : EmittedSeqs[i] = n

\* C18: with a worker that keeps being scheduled, every record submitted to
\* the executor is eventually written to the sink, exactly once and through
\* the logging function of its severity; none is dropped or duplicated,
\* however many are waiting.
C18_EventuallyEmitted ==
    /\ []C18_OnceEach
    /\ [][C18_EmitStep]_vars
    /\ \A n \in 1..LiveRequests : (submitted >= n) ~> Emitted(n)

\* Two records waited in the queue at once and both have been written, one
\* through logging.warning and one through logging.error.
C18_Witness ==
    /\ work_queue = <<>>
    /\ worker_item = <<>>
    /\ Len(EmittedSeqs) = 2
    /\ \E i, j \in DOMAIN sink :
          /\ sink[i].what = "request" /\ sink[i].level = WARNING
          /\ sink[j].what = "request" /\ sink[j].level = ERROR

\* C19: whenever no request is in the middle of lines 107-111, the counts of
\* the mapping add up to request_count modulo 100, and each of them is at
\* least 1 and at most 99.
C19_MappingSum ==
    /\ Total(status_counter) = request_count % FLUSH_INTERVAL
    /\ \A c \in DOMAIN status_counter :
          /\ status_counter[c] >= 1
          /\ status_counter[c] <= FLUSH_INTERVAL - 1

\* Ninety-nine requests are counted under one status code, with the 100th
\* being captured.
C19_Witness ==
    /\ request_count = FLUSH_INTERVAL - 1
    /\ \E c \in DOMAIN status_counter :
          status_counter[c] = FLUSH_INTERVAL - 1
    /\ \E s \in Slots : req[s].pc = "drain"

\* A step that ends a request at line 59, or that catches the exception of
\* call_next at line 64.
SkipsOrFails ==
    \E s \in Slots :
        \/ req[s].pc = "skip" /\ req'[s].pc # "skip"
        \/ req[s].pc = "call" /\ req'[s].pc \notin {"call", "body"}

C20_AggregatorFrame ==
    /\ SkipsOrFails
          => /\ request_count' = request_count
             /\ status_counter' = status_counter
             /\ summaries' = summaries
             /\ (sink' # sink => sink'[Len(sink')].what = "error")
    /\ (request_count' # request_count \/ status_counter' # status_counter
          \/ summaries' # summaries)
          => \E s \in Slots :
                /\ req[s].pc \in {"body", "drain"}
                /\ req[s].caught = ""
                /\ req[s].downstream # NoResponse
                /\ ~(req[s].path \in EXCLUDED_PATHS
                       \/ req[s].draw > LOG_SAMPLE_RATE)
                /\ req'[s].pc = "submit"

\* C20: only a request whose call_next returned changes the aggregator: a
\* skipped request, and one whose call_next raises, leave request_count and
\* the mapping as they are and write no summary, although the failed one
\* returns a 500 and writes an ERROR record.
C20_OnlySucceededCounts == [][C20_AggregatorFrame]_vars

\* The 100th request failed: its ERROR record is written and its 500
\* returned, with the count still at 99 and no summary.
C20_Witness ==
    \E s \in Slots :
        /\ req[s].pc = "returned"
        /\ req[s].caught = "boom"
        /\ req[s].serial = FLUSH_INTERVAL
        /\ req[s].response.status_code = 500
        /\ request_count = FLUSH_INTERVAL - 1
        /\ summaries = 0
        /\ sink[Len(sink)].what = "error"

====
